---- MODULE Spec2Model ----
(***************************************************************************)
(* Transit / aspect computation pipeline of the astrology package:         *)
(* astrology/transits.py (aspect catalog, matcher, exact-aspect solver)    *)
(* and astrology/houses.py (Julian Day, positions, houses, batch, signs).  *)
(*                                                                         *)
(* Angles are fixed-point integers, Deg units to one degree.  Civil times  *)
(* are integer seconds; a Julian Day is held as seconds of UT on the same  *)
(* axis.  A Python dict is a sequence of [name, pos] entries in insertion  *)
(* order.  An optional value (None or x) is the sequence <<>> or <<x>>.    *)
(***************************************************************************)
EXTENDS Integers, Sequences, FiniteSets, TLC

VARIABLES
    op,             \* the operation this run invokes
    pc,             \* position in it: "call", "coarse", "fine", "batch", "returned", "raised"
    \* ---- find_aspects(positions1, positions2, max_orb)
    positions1, positions2, max_orb, aspects,
    \* ---- the Ephemeris Provider (swisseph): stub parameters and accounting
    ephemeris,      \* linear-motion stub: [jd0, lon0, speed]
    fail_at,        \* <<>> or <<[jd, body]>>: the call on which swe.calc_ut / swe.houses raises
    topo,           \* process-wide swe.set_topo state: <<>> or <<[lat, lon, alt]>>
    ncalls,         \* Provider computations (swe.calc_ut, swe.houses) issued so far
    fail_calls,     \* how many of them were the failing call
    late_calls,     \* how many were issued after a failure
    \* ---- find_exact_aspect_time
    natal_lon, start_time, end_time, timezone, planet2, aspect_name,
    current_time, fine_start, fine_end, best_time, best_orb, found,
    coarse_log,     \* the coarse sample times evaluated, in order
    fine_ncalls,    \* Provider computations issued by the fine phase
    \* ---- calculate_planetary_positions standing alone
    julian_day, positions,
    \* ---- calculate_houses_for_positions
    entries, latitude, longitude, idx, results, warnings,
    \* ---- get_zodiac_sign
    degree, sign_result,
    \* ---- calculate_aspect_orb standing alone
    angle1, angle2, aspect_angle, orb_result,
    \* ---- concurrent callers of calculate_ascendant_and_houses
    cpc, cloc, cjd, overlapped, house_log

aspectVars   == <<positions1, positions2, max_orb, aspects>>
providerVars == <<ephemeris, fail_at, topo, ncalls, fail_calls, late_calls>>
solverVars   == <<natal_lon, start_time, end_time, timezone, planet2, aspect_name,
                  current_time, fine_start, fine_end, best_time, best_orb, found,
                  coarse_log, fine_ncalls>>
positionVars == <<julian_day, positions>>
batchVars    == <<entries, latitude, longitude, idx, results, warnings>>
signVars     == <<degree, sign_result>>
orbVars      == <<angle1, angle2, aspect_angle, orb_result>>
callerVars   == <<cpc, cloc, cjd, overlapped, house_log>>
vars == <<op, pc, aspectVars, providerVars, solverVars, positionVars, batchVars,
          signVars, orbVars, callerVars>>

----------------------------------------------------------------------------
(* Units and small helpers *)

\* fixed-point units to one degree (0.1 degree and 0.01 degree/hour are whole)
Deg == 360 * 1000
Circle == 360 * Deg

None == <<>>
Some(x) == <<x>>

Abs(x) == IF x < 0 THEN -x ELSE x
Min(a, b) == IF a <= b THEN a ELSE b

\* Python int(a / b) for b > 0: truncation toward zero
TruncDiv(a, b) == IF a >= 0 THEN a \div b ELSE -((-a) \div b)

\* float('inf'): above every orb the model can produce
Inf == 1000 * Deg

----------------------------------------------------------------------------
(* transits.py: the aspect catalog and the matcher *)

ASPECTS == <<
    [name |-> "conjunction",  angle |-> 0,         orb |-> 8 * Deg],
    [name |-> "opposition",   angle |-> 180 * Deg, orb |-> 8 * Deg],
    [name |-> "trine",        angle |-> 120 * Deg, orb |-> 8 * Deg],
    [name |-> "square",       angle |-> 90 * Deg,  orb |-> 8 * Deg],
    [name |-> "sextile",      angle |-> 60 * Deg,  orb |-> 6 * Deg],
    [name |-> "quincunx",     angle |-> 150 * Deg, orb |-> 3 * Deg],
    [name |-> "semisextile",  angle |-> 30 * Deg,  orb |-> 3 * Deg],
    [name |-> "semisquare",   angle |-> 45 * Deg,  orb |-> 2 * Deg],
    [name |-> "sesquisquare", angle |-> 135 * Deg, orb |-> 2 * Deg] >>

\* ASPECTS[aspect_name]
AspectData(nm) == ASPECTS[CHOOSE k \in 1..Len(ASPECTS) : ASPECTS[k].name = nm]

\* a plausible slip: the difference taken without abs()
calculate_aspect_orb_signed(a1, a2, target) ==
    LET diff == a1 - a2
        orb  == Min(diff, Circle - diff)
    IN  Abs(orb - target)

calculate_aspect_orb(a1, a2, target) ==
    LET diff == Abs(a1 - a2)
        orb  == Min(diff, Circle - diff)
    IN  Abs(orb - target)

\* a plausible slip: a stationary body (speed 0) counted as retrograde
is_retrograde_or_stationary(planet_data) == planet_data.longitude_speed <= 0

is_retrograde(planet_data) == planet_data.longitude_speed < 0

\* "if max_orb is not None and orb > max_orb: continue"
ExceedsMaxOrbAtBound(orb, mo) == mo # None /\ orb >= mo[1]
ExceedsMaxOrb(orb, mo) == mo # None /\ orb > mo[1]

\* "if orb <= aspect_data['orb']"
WithinAspectOrbBelow(orb, aspect_data) == orb < aspect_data.orb
WithinAspectOrb(orb, aspect_data) == orb <= aspect_data.orb

\* the body of the innermost loop: the match appended, if any
AspectMatch(e1, e2, aspect_data, mo) ==
    LET orb == calculate_aspect_orb(e1.pos.longitude, e2.pos.longitude, aspect_data.angle)
    IN  IF ExceedsMaxOrb(orb, mo) THEN <<>>
        ELSE IF WithinAspectOrb(orb, aspect_data)
             THEN << [planet1 |-> e1.name,
                      planet2 |-> e2.name,
                      aspect |-> aspect_data.name,
                      orb |-> orb,
                      exact_angle |-> aspect_data.angle,
                      planet1_retrograde |-> is_retrograde(e1.pos),
                      planet2_retrograde |-> is_retrograde(e2.pos)] >>
             ELSE <<>>

\* for aspect_name, aspect_data in ASPECTS.items()
RECURSIVE AspectLoop(_, _, _, _)
AspectLoop(e1, e2, mo, k) ==
    IF k > Len(ASPECTS) THEN <<>>
    ELSE AspectMatch(e1, e2, ASPECTS[k], mo) \o AspectLoop(e1, e2, mo, k + 1)

\* for planet2, pos2 in positions2.items()
RECURSIVE Planet2Loop(_, _, _, _)
Planet2Loop(e1, p2, mo, j) ==
    IF j > Len(p2) THEN <<>>
    ELSE AspectLoop(e1, p2[j], mo, 1) \o Planet2Loop(e1, p2, mo, j + 1)

\* for planet1, pos1 in positions1.items()
RECURSIVE Planet1Loop(_, _, _, _)
Planet1Loop(p1, p2, mo, i) ==
    IF i > Len(p1) THEN <<>>
    ELSE Planet2Loop(p1[i], p2, mo, 1) \o Planet1Loop(p1, p2, mo, i + 1)

\* a plausible slip: the two position sets iterated in the other nesting
RECURSIVE SwappedLoop(_, _, _, _)
SwappedLoop(p1, p2, mo, j) ==
    IF j > Len(p2) THEN <<>>
    ELSE LET RECURSIVE Inner(_)
             Inner(i) == IF i > Len(p1) THEN <<>>
                         ELSE AspectLoop(p1[i], p2[j], mo, 1) \o Inner(i + 1)
         IN  Inner(1) \o SwappedLoop(p1, p2, mo, j + 1)

find_aspects_swapped(p1, p2, mo) == SwappedLoop(p1, p2, mo, 1)
find_aspects(p1, p2, mo) == Planet1Loop(p1, p2, mo, 1)

----------------------------------------------------------------------------
(* houses.py: Julian Day and the planetary positions, over a Provider stub *)

\* the body identifiers, in the order calculate_planetary_positions declares them
PLANETS == << "Sun", "Moon", "Mercury", "Venus", "Mars",
              "Jupiter", "Saturn", "Uranus", "Neptune", "Pluto" >>

\* timedelta(hours=1), timedelta(minutes=1) and the minute/60.0 of the Julian Day, in seconds
HourSeconds == 3600
MinuteSeconds == 60

\* compute_julian_day: year, month, day, hour - timezone + minute/60.0 go to
\* swe.julday; the seconds of the datetime are not passed on.
\* (a plausible slip first: the timezone offset left out)
compute_julian_day_local(birth_datetime, tz) ==
    MinuteSeconds * (birth_datetime \div MinuteSeconds)
compute_julian_day(birth_datetime, tz) ==
    MinuteSeconds * (birth_datetime \div MinuteSeconds) - tz * HourSeconds

\* the stub keeps the bodies 36 degrees apart, all moving at ephemeris.speed
\* (units of longitude a second); PLANETS[1] is at ephemeris.lon0 at ephemeris.jd0
BodyIndex(body) == CHOOSE i \in 1..Len(PLANETS) : PLANETS[i] = body
StubLongitude(jd, body) ==
    (ephemeris.lon0 + (BodyIndex(body) - 1) * 36 * Deg
        + ephemeris.speed * (jd - ephemeris.jd0)) % Circle

\* whether swe.calc_ut / swe.houses raises on this call
ProviderFails(jd, body) == fail_at # None /\ fail_at[1].jd = jd /\ fail_at[1].body = body

\* swe.calc_ut(julian_day, code), when it returns: the fields the core reads
calc_ut(jd, body) ==
    [longitude |-> StubLongitude(jd, body),
     longitude_speed |-> ephemeris.speed,
     julian_day |-> jd]

\* the loop of calculate_planetary_positions from body i on; the exception of a
\* failing swe.calc_ut leaves the function at once, positions with it.
\* calls: swe.calc_ut calls issued; nfail: how many of them raised; nlate: how
\* many were issued after one raised
RECURSIVE PositionsLoop(_, _, _)
PositionsLoop(jd, i, acc) ==
    IF i > Len(PLANETS)
    THEN [raised |-> FALSE, positions |-> acc, calls |-> Len(PLANETS), nfail |-> 0, nlate |-> 0]
    ELSE IF ProviderFails(jd, PLANETS[i])
         THEN [raised |-> TRUE, positions |-> <<>>, calls |-> i, nfail |-> 1, nlate |-> 0]
         ELSE PositionsLoop(jd, i + 1, Append(acc, [name |-> PLANETS[i], pos |-> calc_ut(jd, PLANETS[i])]))

\* a plausible slip: the failing call tried once more before giving up
RECURSIVE RetryingLoop(_, _, _)
RetryingLoop(jd, i, acc) ==
    IF i > Len(PLANETS)
    THEN [raised |-> FALSE, positions |-> acc, calls |-> Len(PLANETS), nfail |-> 0, nlate |-> 0]
    ELSE IF ProviderFails(jd, PLANETS[i])
         THEN [raised |-> TRUE, positions |-> <<>>, calls |-> i + 1, nfail |-> 2, nlate |-> 1]
         ELSE RetryingLoop(jd, i + 1, Append(acc, [name |-> PLANETS[i], pos |-> calc_ut(jd, PLANETS[i])]))

calculate_planetary_positions_retrying(jd) == RetryingLoop(jd, 1, <<>>)
calculate_planetary_positions(jd) == PositionsLoop(jd, 1, <<>>)

\* dict[name]
Lookup(dict, nm) == dict[CHOOSE i \in 1..Len(dict) : dict[i].name = nm].pos

\* the Provider accounting of one call of calculate_planetary_positions
Account(r) ==
    /\ ncalls' = ncalls + r.calls
    /\ fail_calls' = fail_calls + r.nfail
    /\ late_calls' = late_calls + r.nlate + (IF fail_calls > 0 THEN r.calls ELSE 0)

----------------------------------------------------------------------------
(* transits.py: find_exact_aspect_time, one loop iteration a step *)

\* "if orb < 0.1"
TriggerOrb == Deg \div 10

\* a plausible slip: the threshold taken as 1 degree
TriggersWide(orb) == orb < Deg

\* "if orb < 0.1": the coarse sample starts the fine search
Triggers(orb) == orb < TriggerOrb

\* "if orb < best_orb"
ImprovesOrEquals(orb, best) == orb <= best
Improves(orb, best) == orb < best

\* fine_start = current_time - timedelta(hours=1)
FineStartLate(t) == t
FineStart(t) == t - HourSeconds

\* the orb of natal planet1 against transiting planet2 in transit_positions
TransitOrb(transit_positions) ==
    calculate_aspect_orb(natal_lon, Lookup(transit_positions, planet2).longitude,
                         AspectData(aspect_name).angle)

\* while current_time <= end_time: one coarse sample
CoarseSample ==
    /\ op = "find_exact_aspect_time" /\ pc = "coarse"
    /\ current_time <= end_time
    /\ LET jd == compute_julian_day(current_time, timezone)
           r  == calculate_planetary_positions(jd)
       IN  /\ Account(r)
           /\ coarse_log' = Append(coarse_log, current_time)
           /\ IF r.raised
              THEN /\ pc' = "raised"
                   /\ UNCHANGED <<current_time, fine_start, fine_end, best_time, best_orb>>
              ELSE IF Triggers(TransitOrb(r.positions))
                   THEN /\ fine_start' = FineStart(current_time)
                        /\ fine_end' = current_time + HourSeconds
                        /\ best_time' = None
                        /\ best_orb' = Inf
                        /\ pc' = "fine"
                        /\ UNCHANGED current_time
                   ELSE /\ current_time' = current_time + HourSeconds
                        /\ pc' = "coarse"
                        /\ UNCHANGED <<fine_start, fine_end, best_time, best_orb>>
    /\ UNCHANGED <<op, aspectVars, ephemeris, fail_at, topo, natal_lon, start_time, end_time,
                   timezone, planet2, aspect_name, found, fine_ncalls,
                   positionVars, batchVars, signVars, orbVars, callerVars>>

\* the coarse loop ends: return None
CoarseExit ==
    /\ op = "find_exact_aspect_time" /\ pc = "coarse"
    /\ current_time > end_time
    /\ found' = None
    /\ pc' = "returned"
    /\ UNCHANGED <<op, aspectVars, providerVars, natal_lon, start_time, end_time, timezone,
                   planet2, aspect_name, current_time, fine_start, fine_end, best_time,
                   best_orb, coarse_log, fine_ncalls,
                   positionVars, batchVars, signVars, orbVars, callerVars>>

\* while fine_start <= fine_end: one fine sample
FineSample ==
    /\ op = "find_exact_aspect_time" /\ pc = "fine"
    /\ fine_start <= fine_end
    /\ LET jd == compute_julian_day(fine_start, timezone)
           r  == calculate_planetary_positions(jd)
       IN  /\ Account(r)
           /\ fine_ncalls' = fine_ncalls + r.calls
           /\ IF r.raised
              THEN /\ pc' = "raised"
                   /\ UNCHANGED <<fine_start, best_time, best_orb>>
              ELSE /\ IF Improves(TransitOrb(r.positions), best_orb)
                      THEN /\ best_orb' = TransitOrb(r.positions)
                           /\ best_time' = Some(fine_start)
                      ELSE UNCHANGED <<best_time, best_orb>>
                   /\ fine_start' = fine_start + MinuteSeconds
                   /\ pc' = "fine"
    /\ UNCHANGED <<op, aspectVars, ephemeris, fail_at, topo, natal_lon, start_time, end_time,
                   timezone, planet2, aspect_name, current_time, fine_end, found, coarse_log,
                   positionVars, batchVars, signVars, orbVars, callerVars>>

\* the fine loop ends: return best_time
FineExit ==
    /\ op = "find_exact_aspect_time" /\ pc = "fine"
    /\ fine_start > fine_end
    /\ found' = best_time
    /\ pc' = "returned"
    /\ UNCHANGED <<op, aspectVars, providerVars, natal_lon, start_time, end_time, timezone,
                   planet2, aspect_name, current_time, fine_start, fine_end, best_time,
                   best_orb, coarse_log, fine_ncalls,
                   positionVars, batchVars, signVars, orbVars, callerVars>>

----------------------------------------------------------------------------
(* houses.py: houses, the batch over positions, zodiac signs *)

\* swe.set_topo(latitude, longitude, 0): the Provider's process-wide location
\* (a plausible slip first: the two coordinates in the other order)
set_topo_swapped(lat, lon, alt) == Some([lat |-> lon, lon |-> lat, alt |-> alt])
set_topo(lat, lon, alt) == Some([lat |-> lat, lon |-> lon, alt |-> alt])

\* swe.houses(julian_day, latitude, longitude, house_system), when it returns:
\* the stub turns the ascendant 1 degree in 240 seconds from the place's
\* longitude and spaces the cusps 30 degrees apart
StubAscendant(jd, lat, lon) == (jd * (Deg \div 240) + lon * Deg) % Circle
swe_houses(jd, lat, lon) ==
    LET asc == StubAscendant(jd, lat, lon)
    IN  [cusps |-> [i \in 1..12 |-> (asc + (i - 1) * 30 * Deg) % Circle],
         ascmc |-> << asc, (asc + 270 * Deg) % Circle,
                      (jd * (Deg \div 240) + lon * Deg) % Circle,
                      (asc + 180 * Deg) % Circle >>]

\* the result dictionary calculate_ascendant_and_houses builds from cusps, ascmc
HouseRecord(h) ==
    [ascendant |-> h.cusps[1],
     house_cusps |-> h.cusps,
     angles |-> [ascendant |-> h.ascmc[1], midheaven |-> h.ascmc[2],
                 armc |-> h.ascmc[3], vertex |-> h.ascmc[4]]]

\* calculate_ascendant_and_houses run without interruption: the ambient
\* location it leaves, and its result or the Provider's exception
calculate_ascendant_and_houses(jd, lat, lon) ==
    [topo |-> set_topo(lat, lon, 0),
     raised |-> ProviderFails(jd, "houses"),
     result |-> HouseRecord(swe_houses(jd, lat, lon))]

\* "if jd is None": pos.get('julian_day') of an entry
\* (a plausible slip first: "if not jd", which also drops julian_day = 0)
IsMissingOrZero(jd) == jd = None \/ jd = Some(0)
IsMissing(jd) == jd = None

\* calculate_houses_for_positions: an entry without a Julian Day is skipped
BatchSkip ==
    /\ op = "calculate_houses_for_positions" /\ pc = "batch"
    /\ idx <= Len(entries)
    /\ IsMissing(entries[idx].pos.julian_day)
    /\ warnings' = warnings + 1
    /\ idx' = idx + 1
    /\ UNCHANGED <<op, pc, aspectVars, providerVars, solverVars, positionVars,
                   entries, latitude, longitude, results, signVars, orbVars, callerVars>>

\* calculate_houses_for_positions: houses for an entry that has a Julian Day;
\* a Provider exception leaves the function, results with it
BatchCompute ==
    /\ op = "calculate_houses_for_positions" /\ pc = "batch"
    /\ idx <= Len(entries)
    /\ ~IsMissing(entries[idx].pos.julian_day)
    /\ LET jd == entries[idx].pos.julian_day[1]
           h  == calculate_ascendant_and_houses(jd, latitude, longitude)
       IN  /\ topo' = h.topo
           /\ ncalls' = ncalls + 1
           /\ fail_calls' = fail_calls + (IF h.raised THEN 1 ELSE 0)
           /\ late_calls' = late_calls + (IF fail_calls > 0 THEN 1 ELSE 0)
           /\ IF h.raised
              THEN /\ pc' = "raised"
                   /\ results' = <<>>
                   /\ UNCHANGED idx
              ELSE /\ results' = Append(results, [name |-> entries[idx].name,
                                                  pos |-> [ascendant |-> h.result.ascendant,
                                                           house_cusps |-> h.result.house_cusps,
                                                           angles |-> h.result.angles]])
                   /\ idx' = idx + 1
                   /\ pc' = "batch"
    /\ UNCHANGED <<op, aspectVars, ephemeris, fail_at, solverVars, positionVars,
                   entries, latitude, longitude, warnings, signVars, orbVars, callerVars>>

\* calculate_houses_for_positions: return results
BatchReturn ==
    /\ op = "calculate_houses_for_positions" /\ pc = "batch"
    /\ idx > Len(entries)
    /\ pc' = "returned"
    /\ UNCHANGED <<op, aspectVars, providerVars, solverVars, positionVars, batchVars,
                   signVars, orbVars, callerVars>>

\* the catalog of get_zodiac_sign
SIGNS == << "Aries", "Taurus", "Gemini", "Cancer", "Leo", "Virgo",
            "Libra", "Scorpio", "Sagittarius", "Capricorn", "Aquarius", "Pisces" >>

\* get_zodiac_sign: sign_num = int(degree / 30), degree_in_sign = degree % 30,
\* signs[sign_num] with Python's list indexing: -12..-1 count from the end,
\* anything else outside 0..11 raises IndexError
get_zodiac_sign(d) ==
    LET sign_num == TruncDiv(d, 30 * Deg)
        degree_in_sign == d % (30 * Deg)
    IN  IF sign_num >= Len(SIGNS) \/ sign_num < -Len(SIGNS)
        THEN [raised |-> TRUE]
        ELSE [raised |-> FALSE,
              sign |-> IF sign_num >= 0 THEN SIGNS[sign_num + 1]
                       ELSE SIGNS[Len(SIGNS) + sign_num + 1],
              degree_in_sign |-> degree_in_sign]

CallGetZodiacSign ==
    /\ op = "get_zodiac_sign" /\ pc = "call"
    /\ LET r == get_zodiac_sign(degree)
       IN  IF r.raised
           THEN pc' = "raised" /\ sign_result' = None
           ELSE pc' = "returned" /\ sign_result' = Some(<<r.sign, r.degree_in_sign>>)
    /\ UNCHANGED <<op, aspectVars, providerVars, solverVars, positionVars, batchVars,
                   degree, orbVars, callerVars>>

\* calculate_planetary_positions called on its own (as calculate_transits does)
CallPositions ==
    /\ op = "calculate_planetary_positions" /\ pc = "call"
    /\ LET r == calculate_planetary_positions(julian_day)
       IN  /\ Account(r)
           /\ positions' = r.positions
           /\ pc' = IF r.raised THEN "raised" ELSE "returned"
    /\ UNCHANGED <<op, aspectVars, ephemeris, fail_at, topo, solverVars, julian_day,
                   batchVars, signVars, orbVars, callerVars>>

----------------------------------------------------------------------------
(* Concurrent callers of calculate_ascendant_and_houses: the two Provider    *)
(* calls of one invocation are separate steps, and nothing in the code       *)
(* keeps another caller from running between them.                           *)

Callers == { "a", "b" }

\* at most this many invocations in one run, all callers together
MaxCalls == 3

\* the Julian Days (seconds of UT) the callers ask for
CallJulianDays == { 0, 10 * HourSeconds }

\* the places the callers ask for, in whole degrees
Locations == { [lat |-> 40, lon |-> -74], [lat |-> 51, lon |-> 0] }

\* a caller enters calculate_ascendant_and_houses
Enter(p) ==
    /\ op = "concurrent_houses"
    /\ cpc[p] = "idle"
    /\ Len(house_log) + Cardinality({ q \in Callers : cpc[q] # "idle" }) < MaxCalls
    /\ \E jd \in CallJulianDays : cjd' = [cjd EXCEPT ![p] = jd]
    /\ cpc' = [cpc EXCEPT ![p] = "set_topo"]
    /\ overlapped' = [q \in Callers |->
                        IF q = p THEN \E r \in Callers \ {p} : cpc[r] # "idle"
                        ELSE overlapped[q] \/ cpc[q] # "idle"]
    /\ UNCHANGED <<op, pc, aspectVars, providerVars, solverVars, positionVars, batchVars,
                   signVars, orbVars, cloc, house_log>>

\* swe.set_topo(latitude, longitude, 0)
SetTopo(p) ==
    /\ op = "concurrent_houses"
    /\ cpc[p] = "set_topo"
    /\ topo' = set_topo(cloc[p].lat, cloc[p].lon, 0)
    /\ cpc' = [cpc EXCEPT ![p] = "houses"]
    /\ UNCHANGED <<op, pc, aspectVars, ephemeris, fail_at, ncalls, fail_calls, late_calls,
                   solverVars, positionVars, batchVars, signVars, orbVars, cloc, cjd, overlapped,
                   house_log>>

\* swe.houses(julian_day, latitude, longitude, house_system) and the return
Houses(p) ==
    /\ op = "concurrent_houses"
    /\ cpc[p] = "houses"
    /\ ncalls' = ncalls + 1
    /\ house_log' = Append(house_log, [caller |-> p, jd |-> cjd[p], own |-> cloc[p],
                                       ambient |-> topo, overlapped |-> overlapped[p],
                                       ascendant |-> HouseRecord(swe_houses(cjd[p], cloc[p].lat,
                                                                 cloc[p].lon)).ascendant])
    /\ cpc' = [cpc EXCEPT ![p] = "idle"]
    /\ UNCHANGED <<op, pc, aspectVars, ephemeris, fail_at, topo, fail_calls, late_calls,
                   solverVars, positionVars, batchVars, signVars, orbVars, cloc, cjd, overlapped>>

----------------------------------------------------------------------------
(* Values of the state while an operation is not the one being run *)

IdleAspects  == positions1 = <<>> /\ positions2 = <<>> /\ max_orb = None /\ aspects = <<>>
IdleProvider == /\ ephemeris = [jd0 |-> 0, lon0 |-> 0, speed |-> 0]
                /\ fail_at = None /\ topo = None
                /\ ncalls = 0 /\ fail_calls = 0 /\ late_calls = 0
IdleSolver   == /\ natal_lon = 0 /\ start_time = 0 /\ end_time = 0 /\ timezone = 0
                /\ planet2 = "Sun" /\ aspect_name = "conjunction"
                /\ current_time = 0 /\ fine_start = 0 /\ fine_end = 0
                /\ best_time = None /\ best_orb = Inf /\ found = None
                /\ coarse_log = <<>> /\ fine_ncalls = 0
IdlePosition == julian_day = 0 /\ positions = <<>>
IdleBatch    == /\ entries = <<>> /\ latitude = 0 /\ longitude = 0
                /\ idx = 1 /\ results = <<>> /\ warnings = 0
IdleSign     == degree = 0 /\ sign_result = None
IdleOrb      == angle1 = 0 /\ angle2 = 0 /\ aspect_angle = 0 /\ orb_result = None
IdleCallers  == /\ cpc = <<>> /\ cloc = <<>> /\ cjd = <<>> /\ overlapped = <<>>
                /\ house_log = <<>>

----------------------------------------------------------------------------
(* find_aspects: inputs and the call *)

\* at most this many bodies in a position set
MaxBodies == 2

\* longitudes that put pairs exactly on, just inside and just outside a tolerance,
\* across the 0/360 wrap as well; speeds -0.5, 0, +0.5 degrees a day
PositionsA == { [longitude |-> 10 * Deg,  longitude_speed |-> -(Deg \div 2)],
                [longitude |-> 351 * Deg, longitude_speed |-> 0] }
PositionsB == { [longitude |-> 190 * Deg,    longitude_speed |-> Deg \div 2],
                [longitude |-> 18 * Deg,     longitude_speed |-> -(Deg \div 2)],
                [longitude |-> 18 * Deg + 1, longitude_speed |-> 0] }
MaxOrbs == { None, Some(0), Some(3 * Deg) }

SetNames == { PLANETS[i] : i \in 1..MaxBodies }

\* every dict of at most MaxBodies entries, in every insertion order
DictsOver(Pos) ==
    UNION { { [i \in 1..n |-> [name |-> ns[i], pos |-> ps[i]]] :
                ns \in { f \in [1..n -> SetNames] :
                            \A a, b \in 1..n : a # b => f[a] # f[b] },
                ps \in [1..n -> Pos] } : n \in 0..MaxBodies }

InitAspects ==
    /\ op = "find_aspects" /\ pc = "call"
    /\ positions1 \in DictsOver(PositionsA)
    /\ positions2 \in DictsOver(PositionsB)
    /\ max_orb \in MaxOrbs
    /\ aspects = <<>>
    /\ IdleProvider /\ IdleSolver /\ IdlePosition /\ IdleBatch /\ IdleSign /\ IdleOrb /\ IdleCallers

CallFindAspects ==
    /\ op = "find_aspects" /\ pc = "call"
    /\ aspects' = find_aspects(positions1, positions2, max_orb)
    /\ pc' = "returned"
    /\ UNCHANGED <<op, positions1, positions2, max_orb, providerVars, solverVars,
                   positionVars, batchVars, signVars, orbVars, callerVars>>

NextAspects == CallFindAspects
SpecAspects == InitAspects /\ [][NextAspects]_vars

----------------------------------------------------------------------------
(* calculate_aspect_orb called on its own: inputs and the call *)

\* longitudes inside [0, 360) on both sides of the wrap, the last one below
\* 360, and values outside the range (360, above it, a negative one, two turns)
Angles == { 0, 10 * Deg, 190 * Deg, 350 * Deg, Circle - 1,
            Circle, 370 * Deg, -(10 * Deg), 725 * Deg }

\* the target angles of the catalog
AspectAngles == { ASPECTS[k].angle : k \in 1..Len(ASPECTS) }

InitOrb ==
    /\ op = "calculate_aspect_orb" /\ pc = "call"
    /\ angle1 \in Angles /\ angle2 \in Angles
    /\ aspect_angle \in AspectAngles
    /\ orb_result = None
    /\ IdleAspects /\ IdleProvider /\ IdleSolver /\ IdlePosition /\ IdleBatch /\ IdleSign
    /\ IdleCallers

CallAspectOrb ==
    /\ op = "calculate_aspect_orb" /\ pc = "call"
    /\ orb_result' = Some(calculate_aspect_orb(angle1, angle2, aspect_angle))
    /\ pc' = "returned"
    /\ UNCHANGED <<op, aspectVars, providerVars, solverVars, positionVars, batchVars,
                   signVars, angle1, angle2, aspect_angle, callerVars>>

NextOrb == CallAspectOrb
SpecOrb == InitOrb /\ [][NextOrb]_vars

----------------------------------------------------------------------------
(* Claims about find_aspects *)

\* circular_orb as the specification words it
CircularOrb(a, b, t) ==
    LET d == IF a >= b THEN a - b ELSE b - a
        s == IF d <= Circle - d THEN d ELSE Circle - d
    IN  IF s >= t THEN s - t ELSE t - s

AspectsReturned == op = "find_aspects" /\ pc = "returned"

\* the matches reported for body i of positions1, body j of positions2, aspect k
MatchesOf(i, j, k) ==
    { n \in 1..Len(aspects) : /\ aspects[n].planet1 = positions1[i].name
                              /\ aspects[n].planet2 = positions2[j].name
                              /\ aspects[n].aspect = ASPECTS[k].name }

PairOrb(i, j, k) ==
    CircularOrb(positions1[i].pos.longitude, positions2[j].pos.longitude, ASPECTS[k].angle)

Qualifies(i, j, k) ==
    /\ PairOrb(i, j, k) <= ASPECTS[k].orb
    /\ (max_orb = None \/ PairOrb(i, j, k) <= max_orb[1])

Triples == { t \in (1..Len(positions1)) \X (1..Len(positions2)) \X (1..Len(ASPECTS)) : TRUE }

\* C1: find_aspects reports (body1, body2, aspect) iff the pair's circular orb is
\* <= the aspect's tolerance and (max_orb absent or orb <= max_orb), both
\* inclusive; the reported orb is that orb, so 0 <= orb <= tolerance.
C1_MatchIffWithinOrb ==
    AspectsReturned =>
        /\ \A t \in Triples : (MatchesOf(t[1], t[2], t[3]) # {}) <=> Qualifies(t[1], t[2], t[3])
        /\ \A t \in Triples : \A n \in MatchesOf(t[1], t[2], t[3]) :
              /\ aspects[n].orb = PairOrb(t[1], t[2], t[3])
              /\ aspects[n].orb >= 0
              /\ aspects[n].orb <= ASPECTS[t[3]].orb
              /\ aspects[n].exact_angle = ASPECTS[t[3]].angle

\* a match sitting exactly on the aspect's tolerance and exactly on max_orb, and a
\* pair that max_orb alone keeps out
C1_Witness ==
    /\ AspectsReturned
    /\ max_orb = Some(3 * Deg)
    /\ \E n \in 1..Len(aspects) : aspects[n].orb = 3 * Deg /\ aspects[n].aspect = "semisextile"
    /\ \E t \in Triples : PairOrb(t[1], t[2], t[3]) <= ASPECTS[t[3]].orb
                          /\ PairOrb(t[1], t[2], t[3]) > 3 * Deg
                          /\ MatchesOf(t[1], t[2], t[3]) = {}

\* position of a reported match in the nested iteration
IndexIn(dict, nm) == CHOOSE i \in 1..Len(dict) : dict[i].name = nm
AspectIndex(nm) == CHOOSE k \in 1..Len(ASPECTS) : ASPECTS[k].name = nm
Rank(m) == ( (IndexIn(positions1, m.planet1) - 1) * Len(positions2)
             + (IndexIn(positions2, m.planet2) - 1) ) * Len(ASPECTS)
           + AspectIndex(m.aspect)

\* C2: the result lists the qualifying triples in nested iteration order
\* (positions1 outermost, then positions2, then the catalog in declaration
\* order), each exactly once: nothing dropped, merged or repeated.
C2_NestedIterationOrder ==
    AspectsReturned =>
        /\ \A n \in 1..Len(aspects) - 1 : Rank(aspects[n]) < Rank(aspects[n + 1])
        /\ Len(aspects) = Cardinality({ t \in Triples : Qualifies(t[1], t[2], t[3]) })
        /\ \A t \in Triples : Cardinality(MatchesOf(t[1], t[2], t[3])) <= 1

\* two bodies on each side, inserted against the catalogue order, with matches
\* for both first bodies and both second bodies
C2_Witness ==
    /\ AspectsReturned
    /\ Len(positions1) = 2 /\ Len(positions2) = 2
    /\ positions1[1].name = "Moon" /\ positions2[1].name = "Moon"
    /\ Len(aspects) >= 3
    /\ aspects[1].planet1 # aspects[Len(aspects)].planet1
    /\ \E n \in 1..Len(aspects) : aspects[n].planet2 # aspects[1].planet2

----------------------------------------------------------------------------
(* find_exact_aspect_time: inputs *)

\* the window is at most this many hours long
MaxHours == 2

\* 10:00:00 on the civil axis, in seconds
BaseTime == 10 * HourSeconds

\* a start on the minute, one carrying 30 seconds and one carrying 59
StartTimes == { BaseTime, BaseTime + 30, BaseTime + 59 }

\* end_time - start_time: end before start, an empty window, half an hour, whole hours
Windows == { -MinuteSeconds, 0, 30 * MinuteSeconds } \cup { h * HourSeconds : h \in 1..MaxHours }

\* the instants (UT) at which the stub puts planet2 exactly on the aspect
\* (the last two leave a sample at 10:00 UT one unit inside and one unit outside
\* the 0.1 degree threshold at the slowest speed)
Crossings == { BaseTime - 1800, BaseTime + 1800, BaseTime + 3570, BaseTime + 3571,
               BaseTime + 3600, BaseTime + 5400,
               BaseTime + 35999, BaseTime + 36001 }

\* units of longitude a second: 1 is 0.01 degrees an hour, -10 a retrograde
\* 0.1 degrees an hour, 25 a quarter of a degree an hour, 200 two degrees an
\* hour, 36000 a full circle an hour
Speeds == { 1, -10, 25, 200, 36000 }

\* no failure, a failure on a whole hour, a failure on a half hour
Failures == { None,
              Some([jd |-> BaseTime, body |-> "Sun"]),
              Some([jd |-> BaseTime - 1800, body |-> "Pluto"]) }

\* the orb of the coarse sample taken at civil time t
CoarseOrb(t) ==
    calculate_aspect_orb(natal_lon,
                         StubLongitude(compute_julian_day(t, timezone), planet2),
                         AspectData(aspect_name).angle)

\* The code holds longitudes and orbs as doubles.  A coarse sample whose orb is
\* 0.1 degree in exact arithmetic comes out of the subtraction a rounding error
\* below or above the double 0.1 (abs(10.0 - 9.9) is 0.09999999999999964), so
\* "orb < 0.1" is decided there by the rounding of the Provider's values and not
\* by the comparison.  The inputs keep every hourly sample of the window off
\* that one value; one unit to either side the doubles and the units agree.
OffTriggerBound ==
    \A h \in 0..MaxHours :
        start_time + h * HourSeconds <= end_time =>
            CoarseOrb(start_time + h * HourSeconds) # TriggerOrb

InitSolver ==
    /\ op = "find_exact_aspect_time" /\ pc = "coarse"
    /\ start_time \in StartTimes
    /\ end_time \in { start_time + w : w \in Windows }
    /\ timezone \in { 0, 1 }
    /\ natal_lon = 10 * Deg
    /\ planet2 = "Moon"
    /\ aspect_name \in { "conjunction", "square" }
    /\ ephemeris \in { [jd0 |-> c,
                        lon0 |-> (natal_lon + AspectData(aspect_name).angle
                                    - (BodyIndex(planet2) - 1) * 36 * Deg) % Circle,
                        speed |-> v] : c \in Crossings, v \in Speeds }
    /\ OffTriggerBound
    /\ fail_at \in Failures
    /\ topo = None /\ ncalls = 0 /\ fail_calls = 0 /\ late_calls = 0
    /\ current_time = start_time
    /\ fine_start = 0 /\ fine_end = 0 /\ best_time = None /\ best_orb = Inf
    /\ found = None /\ coarse_log = <<>> /\ fine_ncalls = 0
    /\ IdleAspects /\ IdlePosition /\ IdleBatch /\ IdleSign /\ IdleOrb /\ IdleCallers

NextSolver == CoarseSample \/ CoarseExit \/ FineSample \/ FineExit
SpecSolver == InitSolver /\ [][NextSolver]_vars

----------------------------------------------------------------------------
(* Claims about find_exact_aspect_time *)

SolverRuns == op = "find_exact_aspect_time"

\* the hourly samples start, start+1h, ... that are <= end
CoarseTimes ==
    { start_time + k * HourSeconds : k \in 0..(MaxHours + 1) } \cap
    { t \in Int : t <= end_time }

SampleFails(t) == \E i \in 1..Len(PLANETS) : ProviderFails(compute_julian_day(t, timezone), PLANETS[i])

\* the orb the Provider stub gives at civil time t
SampleOrb(t) ==
    CircularOrb(natal_lon, StubLongitude(compute_julian_day(t, timezone), planet2),
                AspectData(aspect_name).angle)

Triggering == { t \in CoarseTimes : SampleOrb(t) < TriggerOrb }

\* C3: if no hourly coarse sample <= end has orb < 0.1 degrees, the solver
\* terminates with None, raises nothing and never enters the fine phase; with
\* start > end no sample is evaluated at all.
C3_NoTriggerReturnsNone ==
    (SolverRuns /\ \A t \in CoarseTimes : ~SampleFails(t) /\ SampleOrb(t) >= TriggerOrb) =>
        /\ pc \in { "coarse", "returned" }
        /\ fine_ncalls = 0
        /\ pc = "returned" => found = None /\ Len(coarse_log) = Cardinality(CoarseTimes)
        /\ pc = "coarse" => /\ current_time = start_time + Len(coarse_log) * HourSeconds
                            /\ Len(coarse_log) <= Cardinality(CoarseTimes)
                            /\ ENABLED NextSolver
        /\ start_time > end_time => coarse_log = <<>>

\* an aliased crossing: the aspect is exact inside the window, three samples were
\* evaluated, none triggered, None came back
C3_Witness ==
    /\ SolverRuns /\ pc = "returned" /\ found = None
    /\ Len(coarse_log) = 3
    /\ start_time < ephemeris.jd0 + timezone * HourSeconds
    /\ ephemeris.jd0 + timezone * HourSeconds < end_time
    /\ \A t \in CoarseTimes : ~SampleFails(t) /\ SampleOrb(t) >= TriggerOrb

\* the 1-minute grid T-60min, ..., T+60min
FineGrid(T) == { T - HourSeconds + m * MinuteSeconds : m \in 0..120 }

FirstTrigger == CHOOSE t \in Triggering : \A u \in Triggering : t <= u

\* C4: with T the earliest coarse sample of orb < 0.1 degrees, the solver returns
\* the point of the grid T-60min..T+60min of minimal orb, the earliest on a tie,
\* and no coarse sample later than T is ever evaluated.
C4_FirstTriggerFineMinimum ==
    SolverRuns =>
        /\ \A n \in 1..Len(coarse_log) : \A t \in Triggering : coarse_log[n] <= t
        /\ (pc = "returned" /\ Triggering # {}) =>
              /\ found # None
              /\ found[1] \in FineGrid(FirstTrigger)
              /\ \A g \in FineGrid(FirstTrigger) :
                    /\ SampleOrb(found[1]) <= SampleOrb(g)
                    /\ g < found[1] => SampleOrb(found[1]) < SampleOrb(g)

\* the first trigger is not the closest one: a later sample of the window is
\* nearer to exact, and the result is the fine minimum around the first
C4_Witness ==
    /\ SolverRuns /\ pc = "returned" /\ found # None
    /\ \E t \in Triggering : t > FirstTrigger /\ SampleOrb(t) < SampleOrb(FirstTrigger)
    /\ found[1] # FirstTrigger

\* C5 as claimed: every non-absent result t has start <= t <= end.
C5_ResultWithinWindow ==
    (SolverRuns /\ pc = "returned" /\ found # None) =>
        (start_time <= found[1] /\ found[1] <= end_time)

\* the civil instant at which the stub makes the aspect exact
CrossingTime == ephemeris.jd0 + timezone * HourSeconds

CrossingInFirstStep ==
    /\ start_time <= CrossingTime /\ CrossingTime <= start_time + HourSeconds
    /\ CrossingTime <= end_time

\* C6 as claimed: linear motion at any non-zero speed, no Provider failure, the
\* crossing inside [start, start+1h] and [start, end]: a time within 1 minute of
\* the crossing is returned.
C6_WithinOneMinuteAnySpeed ==
    (SolverRuns /\ pc = "returned" /\ fail_at = None /\ ephemeris.speed # 0
        /\ CrossingInFirstStep) =>
        (found # None /\ Abs(found[1] - CrossingTime) <= MinuteSeconds)

\* the aspect is analytically exact at the civil instant t, taken to the second
ExactAt(t) ==
    CircularOrb(natal_lon, StubLongitude(t - timezone * HourSeconds, planet2),
                AspectData(aspect_name).angle) = 0

\* C6 amended: linear motion at any non-zero speed, no Provider failure, the
\* crossing inside [start, start+1h] and [start, end], a start whose seconds
\* are at most 30, and a coarse sample at start or at start+1h (<= end) whose
\* orb is below 0.1 degrees: a time is returned, and it lies within 1 minute of
\* an instant at which the aspect is exact (the crossing, or another exact
\* instant when the body is fast enough to make the aspect exact more than once).
C6_WithinOneMinuteWhenTriggered ==
    (SolverRuns /\ pc = "returned" /\ fail_at = None /\ ephemeris.speed # 0
        /\ CrossingInFirstStep
        /\ start_time % MinuteSeconds <= 30
        /\ \/ SampleOrb(start_time) < TriggerOrb
           \/ /\ start_time + HourSeconds <= end_time
              /\ SampleOrb(start_time + HourSeconds) < TriggerOrb) =>
        /\ found # None
        /\ \/ Abs(found[1] - CrossingTime) <= MinuteSeconds
           \/ \E e \in (found[1] - MinuteSeconds)..(found[1] + MinuteSeconds) :
                 e # CrossingTime /\ ExactAt(e)

\* a start carrying 30 seconds, two degrees an hour, the second coarse sample
\* triggered, and the time returned is 59 seconds from the crossing
C6_Witness ==
    /\ SolverRuns /\ pc = "returned" /\ fail_at = None
    /\ CrossingInFirstStep
    /\ start_time % MinuteSeconds = 30
    /\ Abs(ephemeris.speed) = 200
    /\ Len(coarse_log) = 2
    /\ found # None /\ Abs(found[1] - CrossingTime) = 59

----------------------------------------------------------------------------
(* calculate_houses_for_positions, calculate_planetary_positions,           *)
(* get_zodiac_sign and the concurrent callers: inputs and specifications    *)

\* at most this many entries in a batch
MaxEntries == 3

\* an entry without julian_day, one with julian_day = 0, one with a later day
EntryDays == { None, Some(0), Some(BaseTime) }

\* swe.houses failing on one of the two days
HouseFailures == { None, Some([jd |-> 0, body |-> "houses"]),
                   Some([jd |-> BaseTime, body |-> "houses"]) }

InitBatch ==
    /\ op = "calculate_houses_for_positions" /\ pc = "batch"
    /\ \E n \in 0..MaxEntries :
          entries \in { [i \in 1..n |-> [name |-> PLANETS[i], pos |-> [julian_day |-> d[i]]]] :
                          d \in [1..n -> EntryDays] }
    /\ \E loc \in Locations : latitude = loc.lat /\ longitude = loc.lon
    /\ idx = 1 /\ results = <<>> /\ warnings = 0
    /\ ephemeris = [jd0 |-> 0, lon0 |-> 0, speed |-> 0]
    /\ fail_at \in HouseFailures
    /\ topo = None /\ ncalls = 0 /\ fail_calls = 0 /\ late_calls = 0
    /\ IdleAspects /\ IdleSolver /\ IdlePosition /\ IdleSign /\ IdleOrb /\ IdleCallers

NextBatch == BatchSkip \/ BatchCompute \/ BatchReturn
SpecBatch == InitBatch /\ [][NextBatch]_vars

InitPositions ==
    /\ op = "calculate_planetary_positions" /\ pc = "call"
    /\ julian_day \in { BaseTime - 1800, BaseTime, BaseTime + 1800 }
    /\ positions = <<>>
    /\ ephemeris \in { [jd0 |-> c, lon0 |-> 10 * Deg, speed |-> v] :
                          c \in { BaseTime }, v \in Speeds }
    /\ fail_at \in Failures
    /\ topo = None /\ ncalls = 0 /\ fail_calls = 0 /\ late_calls = 0
    /\ IdleAspects /\ IdleSolver /\ IdleBatch /\ IdleSign /\ IdleOrb /\ IdleCallers

NextPositions == CallPositions
SpecPositions == InitPositions /\ [][NextPositions]_vars

\* get_zodiac_sign is tried on this many steps of 7.5 degrees above 0, and a
\* quarter as many below
SignSteps == 64

\* the steps, and the last representable longitude below each sign boundary
Degrees ==
    { q * ((15 * Deg) \div 2) : q \in -(SignSteps \div 4)..SignSteps } \cup
    { k * 30 * Deg - 1 : k \in 1..12 }

InitSign ==
    /\ op = "get_zodiac_sign" /\ pc = "call"
    /\ degree \in Degrees
    /\ sign_result = None
    /\ IdleAspects /\ IdleProvider /\ IdleSolver /\ IdlePosition /\ IdleBatch /\ IdleOrb /\ IdleCallers

NextSign == CallGetZodiacSign
SpecSign == InitSign /\ [][NextSign]_vars

InitCallers ==
    /\ op = "concurrent_houses" /\ pc = "call"
    /\ cpc = [p \in Callers |-> "idle"]
    /\ cloc \in [Callers -> Locations]
    /\ cjd = [p \in Callers |-> 0]
    /\ overlapped = [p \in Callers |-> FALSE]
    /\ house_log = <<>>
    /\ IdleAspects /\ IdleProvider /\ IdleSolver /\ IdlePosition /\ IdleBatch /\ IdleSign
    /\ IdleOrb

NextCallers == \E p \in Callers : Enter(p) \/ SetTopo(p) \/ Houses(p)
SpecCallers == InitCallers /\ [][NextCallers]_vars

\* every operation that reaches the Provider for a computation
InitFailures == InitPositions \/ InitSolver \/ InitBatch
NextFailures == NextPositions \/ NextSolver \/ NextBatch
SpecFailures == InitFailures /\ [][NextFailures]_vars

\* the whole model
Init == \/ InitAspects \/ InitSolver \/ InitBatch \/ InitPositions \/ InitSign \/ InitCallers
        \/ InitOrb
Next == \/ NextAspects \/ NextSolver \/ NextBatch \/ NextPositions \/ NextSign \/ NextCallers
        \/ NextOrb
Spec == Init /\ [][Next]_vars

----------------------------------------------------------------------------
(* Claims about the batch, the ambient location, Provider failures, signs *)

BatchRuns == op = "calculate_houses_for_positions"

\* the labels among the first n entries that carry a julian_day, in order
RECURSIVE LabelsWithDay(_)
LabelsWithDay(n) ==
    IF n = 0 THEN <<>>
    ELSE IF entries[n].pos.julian_day = None THEN LabelsWithDay(n - 1)
         ELSE Append(LabelsWithDay(n - 1), entries[n].name)

Lacking(n) == { i \in 1..n : entries[i].pos.julian_day = None }

\* C7: the batch handles every entry in order: a House/Angles record for exactly
\* the labels carrying a julian_day (0 included), one warning per entry lacking
\* it, no Provider call for a skipped entry, and a skip does not stop the batch.
C7_BatchSkipsAndContinues ==
    (BatchRuns /\ pc # "raised") =>
        /\ idx <= Len(entries) + 1
        /\ [i \in 1..Len(results) |-> results[i].name] = LabelsWithDay(idx - 1)
        /\ warnings = Cardinality(Lacking(idx - 1))
        /\ ncalls = Len(results)
        /\ \A i \in 1..Len(results) :
              /\ DOMAIN results[i].pos.house_cusps = 1..12
              /\ DOMAIN results[i].pos.angles = { "ascendant", "midheaven", "armc", "vertex" }
        /\ pc = "batch" => ENABLED NextBatch
        /\ pc = "returned" => idx = Len(entries) + 1

\* three entries, the first without julian_day, the second with julian_day = 0:
\* two records and one warning came back
C7_Witness ==
    /\ BatchRuns /\ pc = "returned"
    /\ Len(entries) = 3
    /\ entries[1].pos.julian_day = None
    /\ entries[2].pos.julian_day = Some(0)
    /\ Len(results) = 2 /\ warnings = 1 /\ ncalls = 2

OwnTopo(p) == Some([lat |-> cloc[p].lat, lon |-> cloc[p].lon, alt |-> 0])

\* C8: the topocentric location is process-wide state written by set_topo before
\* swe.houses: a call that no other call overlaps finds its own location there
\* when swe.houses runs (interleaved calls need not: see the witness).
C8_SerializedCallsSeeOwnLocation ==
    op = "concurrent_houses" =>
        /\ \A p \in Callers : (cpc[p] = "houses" /\ ~overlapped[p]) => topo = OwnTopo(p)
        /\ \A n \in 1..Len(house_log) :
              ~house_log[n].overlapped =>
                  house_log[n].ambient = Some([lat |-> house_log[n].own.lat,
                                               lon |-> house_log[n].own.lon, alt |-> 0])

\* one run holds a serialized call that found its own location and an
\* interleaved call during which swe.houses ran under the other caller's
C8_Witness ==
    /\ op = "concurrent_houses"
    /\ \E m, n \in 1..Len(house_log) :
          /\ ~house_log[m].overlapped
          /\ house_log[m].ambient = OwnTopo(house_log[m].caller)
          /\ house_log[n].overlapped
          /\ house_log[n].ambient # OwnTopo(house_log[n].caller)
          /\ \E q \in Callers \ { house_log[n].caller } : house_log[n].ambient = OwnTopo(q)

FailureOps == { "calculate_planetary_positions", "find_exact_aspect_time",
                "calculate_houses_for_positions" }

\* C9: a Provider failure is never retried and never swallowed: the failing call
\* is issued once, nothing is asked of the Provider after it, the operation ends
\* raised with no result, and nothing but a Provider failure raises; a batch
\* entry without julian_day is recovered locally.
C9_FailurePropagatesOnce ==
    op \in FailureOps =>
        /\ fail_calls <= 1
        /\ late_calls = 0
        /\ fail_calls = 1 <=> pc = "raised"
        /\ pc = "raised" =>
              /\ ~ENABLED NextFailures
              /\ found = None /\ positions = <<>> /\ results = <<>>
        /\ (op = "calculate_planetary_positions" /\ pc = "raised") =>
              ncalls = BodyIndex(fail_at[1].body)
        /\ (op = "calculate_houses_for_positions" /\ warnings > 0) => fail_calls = 0 \/ pc = "raised"

\* a failure met in the fine phase of the solver, after coarse samples went well
C9_Witness ==
    /\ op = "find_exact_aspect_time" /\ pc = "raised"
    /\ fine_ncalls > 0 /\ fine_ncalls % Len(PLANETS) # 0
    /\ fail_calls = 1 /\ late_calls = 0

\* C10 as claimed: for every longitude, sign_of returns the sign at index
\* floor(longitude/30) mod 12 and a degree-within-sign in [0,30).
C10_SignIndexWraps ==
    (op = "get_zodiac_sign" /\ pc # "call") =>
        /\ pc = "returned"
        /\ sign_result[1][1] = SIGNS[((degree \div (30 * Deg)) % 12) + 1]
        /\ 0 <= sign_result[1][2] /\ sign_result[1][2] < 30 * Deg

----------------------------------------------------------------------------
(* Claims about calculate_aspect_orb, is_retrograde and the fine phase *)

InRange(a) == 0 <= a /\ a < Circle

\* the shorter of the two arcs between two longitudes of [0, 360)
ShortestArc(a, b) == Min((a - b) % Circle, (b - a) % Circle)

\* C11: calculate_aspect_orb gives the same value with its two longitudes
\* exchanged; the value is | min(|a-b|, 360-|a-b|) - t | and never negative;
\* for longitudes in [0, 360) the inner distance is the shorter arc between
\* them, within [0, 180]; and the orb of a longitude to itself at target 0 is 0.
C11_OrbSymmetricNonNegative ==
    (op = "calculate_aspect_orb" /\ pc = "returned") =>
        LET r     == orb_result[1]
            inner == calculate_aspect_orb(angle1, angle2, 0)
        IN  /\ r = calculate_aspect_orb(angle2, angle1, aspect_angle)
            /\ r = CircularOrb(angle1, angle2, aspect_angle)
            /\ r >= 0
            /\ (InRange(angle1) /\ InRange(angle2)) =>
                  /\ inner = ShortestArc(angle1, angle2)
                  /\ 0 <= inner /\ inner <= 180 * Deg
                  /\ r = Abs(inner - aspect_angle)
            /\ calculate_aspect_orb(angle1, angle1, 0) = 0
            /\ (angle1 = angle2 /\ aspect_angle = 0) => r = 0

\* 350 and 10 degrees, more than a half turn apart by subtraction and 20 degrees
\* apart on the circle: 10 degrees from the semisextile, either way round
C11_Witness ==
    /\ op = "calculate_aspect_orb" /\ pc = "returned"
    /\ angle1 = 350 * Deg /\ angle2 = 10 * Deg /\ aspect_angle = 30 * Deg
    /\ Abs(angle1 - angle2) > 180 * Deg
    /\ orb_result = Some(10 * Deg)

\* C12: is_retrograde is true exactly when longitude_speed < 0 (false at speed 0
\* and at positive speeds), and in every match find_aspects returns,
\* planet1_retrograde is that predicate on the positions1 body of the match and
\* planet2_retrograde is that predicate on the positions2 body, never swapped.
C12_RetrogradeFlagsPerSide ==
    AspectsReturned =>
        /\ \A i \in 1..Len(positions1) :
              is_retrograde(positions1[i].pos) <=> positions1[i].pos.longitude_speed < 0
        /\ \A j \in 1..Len(positions2) :
              is_retrograde(positions2[j].pos) <=> positions2[j].pos.longitude_speed < 0
        /\ \A n \in 1..Len(aspects) :
              /\ aspects[n].planet1_retrograde =
                    (Lookup(positions1, aspects[n].planet1).longitude_speed < 0)
              /\ aspects[n].planet2_retrograde =
                    (Lookup(positions2, aspects[n].planet2).longitude_speed < 0)

\* one result holds a match of a retrograde positions1 body with a direct
\* positions2 body, and a match of a stationary positions1 body (speed 0, not
\* retrograde) with a retrograde positions2 body
C12_Witness ==
    /\ AspectsReturned
    /\ \E m, n \in 1..Len(aspects) :
          /\ aspects[m].planet1_retrograde /\ ~aspects[m].planet2_retrograde
          /\ Lookup(positions2, aspects[m].planet2).longitude_speed > 0
          /\ ~aspects[n].planet1_retrograde /\ aspects[n].planet2_retrograde
          /\ Lookup(positions1, aspects[n].planet1).longitude_speed = 0

\* the 1-minute steps of the window [T - 1h, T + 1h], both endpoints counted
FineWindowSteps == (2 * HourSeconds) \div MinuteSeconds + 1

\* C13 as claimed: the fine phase of one invocation issues at most one Provider
\* body computation per 1-minute step of the 2-hour window, both endpoints
\* counted (about 120), every swe.calc_ut call of every position lookup counted.
C13_FinePhaseOneCallPerStep ==
    SolverRuns => fine_ncalls <= FineWindowSteps

====
